---- MODULE Spec2Model ----
(***************************************************************************)
(* Dynamic Event Hub.                                                      *)
(*   Part I : backend/socket/socketHandler.js, the Socket.io handler with  *)
(*            its three in-memory maps and the Event documents it reads.   *)
(*   Part II: the Angular AuthService (token store, refresh timer).        *)
(* Each part has its own specification; the other part's variables stay    *)
(* at their initial value.                                                 *)
(***************************************************************************)
EXTENDS Integers, Sequences, FiniteSets, TLC

VARIABLES
    \* ---- Part I: socket handler ----
    sockState,          \* socket id -> "new" | "authing" | "connected" | "closed" | "rejected"
    sockToken,          \* socket id -> the handshake token (socket.handshake.auth.token)
    sockUser,           \* socket id -> socket.userId (NoUser until the middleware sets it)
    activeConnections,  \* Map socket id -> userId
    userSockets,        \* Map userId -> Set of socket ids
    eventRooms,         \* Map eventId -> Set of socket ids
    rooms,              \* Socket.io adapter: socket id -> set of rooms it is in
    eventDb,            \* the Event collection: eventId -> document
    inflight,           \* handlers suspended at an await (with the document they fetched)
    emitted,            \* the emissions of the last handler step, in order
    lastOp,             \* what the last handler step was
    overtaken,          \* history: the awaiting join_event requests that a later
                        \* leave_event of the same socket and event has passed
    \* ---- Part II: AuthService ----
    constructed,        \* the constructor has run
    storedToken,        \* localStorage / cookie entry 'auth_token'
    currentUser,        \* currentUserSubject.value
    isAuthenticated,    \* isAuthenticatedSubject.value
    tokenRefreshTimer,  \* the field: a Subscription (its id) or NoSub
    subs,               \* the open timer subscriptions: id -> what they wait for
    nextSub,            \* id of the next Subscription object
    now,                \* Date.now(), in ms
    http,               \* HTTP calls awaiting their response
    authOp,             \* what the last AuthService step was
    refreshFailed,      \* history: a refresh request has failed and no login,
                        \* registration or password reset has succeeded since
    \* ---- Part II: AppComponent ----
    component,          \* "none" | "alive" (ngOnInit has run) | "destroyed"
    socketRequests,     \* the calls of SocketService made by the last step, in order
    lastRequest,        \* the most recent call of SocketService, "none" before the first
    \* ---- Part III: bookings (REST, /api/bookings) ----
    bookings            \* booking request -> where it is, and the counter value it read

authVars == <<constructed, storedToken, currentUser, isAuthenticated,
              tokenRefreshTimer, subs, nextSub, now, http, authOp, refreshFailed,
              component, socketRequests, lastRequest>>

sockVars == <<sockState, sockToken, sockUser, activeConnections, userSockets,
              eventRooms, rooms, eventDb, inflight, emitted, lastOp, overtaken>>

vars == <<sockVars, authVars, bookings>>

----------------------------------------------------------------------------
(* Bounds *)
MaxSockets == 2
MaxInFlight == 1

Sockets == 1..MaxSockets

----------------------------------------------------------------------------
(* The User collection (read-only for the socket handler). *)
NoUser == "none"
ActiveUsers == {"u1", "u2", "u3"}
UserIds == ActiveUsers \cup {"u4", "ghost"}      \* "ghost" is in no document

\* User.findById(id): the document's status, or "null" when there is none
UserFindById(id) ==
    IF id \in ActiveUsers THEN "active"
    ELSE IF id = "u4" THEN "suspended"
    ELSE "null"

\* Handshake tokens: none, or a JWT with a signature and a userId claim
NoToken == [sig |-> "none", userId |-> NoUser]
Tokens == {NoToken, [sig |-> "bad", userId |-> "u1"]}
             \cup [sig : {"good"}, userId : UserIds]

\* jwt.verify(token, JWT_SECRET): throws unless the signature verifies
JwtVerifies(tok) == tok.sig = "good"

----------------------------------------------------------------------------
(* The Event collection. *)
EventIds == {"e1", "e2"}
AnyEventId == EventIds \cup {"e0"}               \* "e0": no such document
AttendeeIds == {"a1", "a2"}
AnyAttendeeId == AttendeeIds \cup {"ax"}         \* "ax": no such sub-document

NullDoc == [kind |-> "null"]

Attendee(u) == [user |-> u, checkInTime |-> "unset", status |-> "registered"]

InitEventDb ==
    [e \in EventIds |->
        IF e = "e1"
        THEN [kind |-> "doc", visibility |-> "public", organizer |-> "u3",
              hasChat |-> FALSE, maxAttendees |-> 3, currentAttendees |-> 0,
              sold |-> 0,
              attendees |-> [a \in {} |-> Attendee("u1")]]
        ELSE [kind |-> "doc", visibility |-> "private", organizer |-> "u1",
              hasChat |-> TRUE, maxAttendees |-> 0, currentAttendees |-> 2,
              sold |-> 1,
              attendees |-> [a \in AttendeeIds |->
                                IF a = "a1" THEN Attendee("u2") ELSE Attendee("u1")]]]

\* Event.findById(eventId) when the query succeeds
EventFindById(e) == IF e \in DOMAIN eventDb THEN eventDb[e] ELSE NullDoc

\* eventSchema.methods.getAvailableSpots (a missing maxAttendees is falsy)
getAvailableSpots(doc) ==
    IF doc.maxAttendees = 0 THEN "Infinity"
    ELSE doc.maxAttendees - doc.currentAttendees

\* event.attendees.filter(a => a.checkInTime).length
CheckedInCount(doc) ==
    Cardinality({a \in DOMAIN doc.attendees : doc.attendees[a].checkInTime # "unset"})

----------------------------------------------------------------------------
(* Map helpers (JavaScript Map.set / Map.delete / Map.has). *)
MapHas(m, k) == k \in DOMAIN m
MapSet(m, k, v) == [x \in (DOMAIN m) \cup {k} |-> IF x = k THEN v ELSE m[x]]
MapDelete(m, k) == [x \in (DOMAIN m) \ {k} |-> m[x]]
EmptyMap == [x \in {} |-> {}]

(* Rooms and emissions. *)
UserRoom(u) == <<"user", u>>
EventRoom(e) == <<"event", e>>
SelfTarget(s) == <<"socket", s>>
AllTarget == <<"all", "all">>

\* the connected sockets that are members of room r, under rooms rm and states st
Members(rm, st, r) == {t \in Sockets : r \in rm[t] /\ st[t] = "connected"}

Emission(ev, target, recv, msg, val) ==
    [ev |-> ev, to |-> target, recv |-> recv, msg |-> msg, val |-> val]

\* socket.emit(ev, ...): to the socket itself
SocketEmit(s, st, ev, msg) ==
    Emission(ev, SelfTarget(s), IF st[s] = "connected" THEN {s} ELSE {}, msg, 0)
\* socket.to(room).emit(ev, ...): the room except the sender
SocketToEmit(s, rm, st, r, ev) ==
    Emission(ev, r, Members(rm, st, r) \ {s}, "", 0)
\* io.to(room).emit(ev, ...): the whole room
IoToEmit(rm, st, r, ev, val) ==
    Emission(ev, r, Members(rm, st, r), "", val)

\* lastOp: the handler step just taken. A continuation is told by the request
\* it takes out of inflight, so lastOp names only its kind.
NoOp == [op |-> "none", sock |-> 0, event |-> "e0", target |-> NoUser, tok |-> NoToken]
Op(name, s, e) == [NoOp EXCEPT !.op = name, !.sock = s, !.event = e]

\* The server runs one handler step at a time (single-threaded event loop): a
\* step starts with the packets of the step before handed to the transport.
Idle == lastOp = NoOp /\ emitted = <<>>

SocketInit ==
    /\ sockState = [s \in Sockets |-> "new"]
    /\ sockToken = [s \in Sockets |-> NoToken]
    /\ sockUser = [s \in Sockets |-> NoUser]
    /\ activeConnections = EmptyMap
    /\ userSockets = EmptyMap
    /\ eventRooms = EmptyMap
    /\ rooms = [s \in Sockets |-> {}]
    /\ eventDb = InitEventDb
    /\ inflight = {}
    /\ emitted = <<>>
    /\ lastOp = NoOp
    /\ overtaken = {}

----------------------------------------------------------------------------
(* io.use: the authentication middleware, and io.on('connection'). *)

\* next(new Error(msg)): the connection is refused, the socket object dropped
Reject(s, msg, op) ==
    /\ sockState' = [sockState EXCEPT ![s] = "rejected"]
    /\ sockToken' = [sockToken EXCEPT ![s] = NoToken]
    /\ emitted' = <<Emission("connect_error", SelfTarget(s), {}, msg, 0)>>
    /\ lastOp' = op
    /\ UNCHANGED <<sockUser, activeConnections, userSockets, eventRooms, rooms,
                   eventDb, inflight>>

\* lines 17-23: read the token, verify it, start User.findById
Handshake(s, tok) ==
    /\ Idle
    /\ UNCHANGED <<authVars, bookings, overtaken>>
    /\ sockState[s] = "new"
    /\ \A t \in Sockets : t < s => sockState[t] # "new"   \* ids are given out in order
    /\ LET op == [Op("handshake", s, "e0") EXCEPT !.tok = tok] IN
       IF tok = NoToken
       THEN Reject(s, "Authentication token required", op)
       ELSE IF ~JwtVerifies(tok)
       THEN Reject(s, "Authentication failed", op)
       ELSE /\ sockState' = [sockState EXCEPT ![s] = "authing"]
            /\ sockToken' = [sockToken EXCEPT ![s] = tok]
            /\ emitted' = <<>>
            /\ lastOp' = op
            /\ UNCHANGED <<sockUser, activeConnections, userSockets, eventRooms,
                           rooms, eventDb, inflight>>

UserAcceptedAnyStatus(status) == status # "null"

\* line 26: the middleware lets the socket through
UserAccepted(status) == status # "null" /\ status = "active"

ConnectRoomsNoJoin(s, u) == rooms

\* line 57: socket.join(`user_${socket.userId}`)
ConnectRooms(s, u) == [rooms EXCEPT ![s] = {UserRoom(u)}]

\* lines 381-390: socket.broadcast.emit('user_status_change', {status})
broadcastUserStatus(s, st, status) ==
    Emission("user_status_change", AllTarget,
             {t \in Sockets : st[t] = "connected"} \ {s}, status, 0)

AddUserSocketAlone(u, s) == MapSet(userSockets, u, {s})

\* lines 51-54: the user's set is created when missing, and s added to it
AddUserSocket(u, s) ==
    MapSet(userSockets, u,
           (IF MapHas(userSockets, u) THEN userSockets[u] ELSE {}) \cup {s})

\* lines 24-37, then the connection handler, lines 40-84
AuthLookupDone(s, throws) ==
    /\ Idle
    /\ UNCHANGED <<authVars, bookings, overtaken>>
    /\ sockState[s] = "authing"
    /\ LET tok == sockToken[s]
           u == tok.userId
           op == [Op("connection", s, "e0") EXCEPT !.tok = tok]
       IN IF throws
          THEN Reject(s, "Authentication failed", op)
          ELSE IF ~UserAccepted(UserFindById(u))
          THEN Reject(s, "Invalid or inactive user", op)
          ELSE LET st == [sockState EXCEPT ![s] = "connected"] IN
               /\ sockState' = st
               /\ sockUser' = [sockUser EXCEPT ![s] = u]
               /\ activeConnections' = MapSet(activeConnections, s, u)
               /\ userSockets' = AddUserSocket(u, s)
               /\ rooms' = ConnectRooms(s, u)
               /\ emitted' = <<SocketEmit(s, st, "connected", ""),
                               broadcastUserStatus(s, st, "online")>>
               /\ lastOp' = op
               /\ UNCHANGED <<sockToken, eventRooms, eventDb, inflight>>

DisconnectEventRoomsKeep(s) == eventRooms

\* eventRooms.forEach of the disconnect handler (lines 104-113): the socket's id
\* is deleted from every set that holds it; the sets themselves stay
DisconnectEventRooms(s) ==
    [e \in DOMAIN eventRooms |-> eventRooms[e] \ {s}]

\* the ids of a set of strings, in a fixed order (Map iteration order is not modelled)
RECURSIVE SeqOfSet(_)
SeqOfSet(S) ==
    IF S = {} THEN <<>>
    ELSE LET x == CHOOSE y \in S : TRUE IN <<x>> \o SeqOfSet(S \ {x})

LastSocketAlways(u, s) == TRUE

\* lines 93-96: the user has an entry in userSockets and, with s deleted from
\* it, the set is empty
LastSocket(u, s) == MapHas(userSockets, u) /\ userSockets[u] \ {s} = {}

\* socket.on('disconnect'), lines 86-114. Socket.io has already taken the
\* socket out of all its rooms when the handler runs.
Disconnect(s) ==
    /\ Idle
    /\ UNCHANGED <<authVars, bookings, overtaken>>
    /\ sockState[s] = "connected"
    /\ LET st == [sockState EXCEPT ![s] = "closed"]
           rm == [rooms EXCEPT ![s] = {}]
           u == sockUser[s]
           had == MapHas(userSockets, u)
           left == IF had THEN userSockets[u] \ {s} ELSE {}
           last == LastSocket(u, s)
           tracked == SeqOfSet({e \in DOMAIN eventRooms : s \in eventRooms[e]})
       IN /\ sockState' = st
          /\ rooms' = rm
          /\ activeConnections' = MapDelete(activeConnections, s)
          /\ userSockets' = IF ~had THEN userSockets
                            ELSE IF last THEN MapDelete(userSockets, u)
                            ELSE MapSet(userSockets, u, left)
          /\ eventRooms' = DisconnectEventRooms(s)
          /\ emitted' =
                (IF last THEN <<broadcastUserStatus(s, st, "offline")>> ELSE <<>>)
                \o [i \in 1..Len(tracked) |->
                       SocketToEmit(s, rm, st, EventRoom(tracked[i]), "user_left_event")]
          /\ lastOp' = Op("disconnect", s, "e0")
          /\ UNCHANGED <<sockToken, sockUser, eventDb, inflight>>

----------------------------------------------------------------------------
(* Handlers that await Event.findById: the first step issues the query and     *)
(* holds the document it resolves to; the continuation runs in a later step,   *)
(* with `throws` when the query rejected instead.                              *)

Request(kind, s, e, a, doc, stage) ==
    [kind |-> kind, sock |-> s, event |-> e, att |-> a, doc |-> doc, stage |-> stage]

\* const event = await Event.findById(eventId)
Fetch(kind, s, e, a) ==
    /\ Idle
    /\ UNCHANGED <<authVars, bookings, overtaken>>
    /\ sockState[s] = "connected"
    /\ Cardinality(inflight) < MaxInFlight
    /\ inflight' = inflight \cup
          {Request(kind, s, e, a, EventFindById(e), "lookup")}
    /\ emitted' = <<>>
    /\ lastOp' = [NoOp EXCEPT !.op = "await"]
    /\ UNCHANGED <<sockState, sockToken, sockUser, activeConnections, userSockets,
                   eventRooms, rooms, eventDb>>

\* the handler ends by emitting one 'error' to its own socket
FailWith(r, op, msg) ==
    /\ inflight' = inflight \ {r}
    /\ emitted' = <<SocketEmit(r.sock, sockState, "error", msg)>>
    /\ lastOp' = op
    /\ UNCHANGED <<sockState, sockToken, sockUser, activeConnections, userSockets,
                   eventRooms, rooms, eventDb>>

ReqOp(r) == [NoOp EXCEPT !.op = r.kind]
\* the step of a handler whose awaited query rejected
ThrowOp(r) == [NoOp EXCEPT !.op = r.kind \o "!"]

HasAccessInverted(doc, u) ==
    \/ doc.visibility = "public"
    \/ doc.organizer # u
    \/ \E a \in DOMAIN doc.attendees : doc.attendees[a].user = u

\* lines 138-140
HasAccess(doc, u) ==
    \/ doc.visibility = "public"
    \/ doc.organizer = u
    \/ \E a \in DOMAIN doc.attendees : doc.attendees[a].user = u

\* lines 203 and 350: event.organizer.toString() === socket.userId
IsOrganizer(doc, u) == doc.organizer = u

UpdateDeniedMissingOnly(doc, u) == doc = NullDoc

\* line 203: !event || event.organizer.toString() !== socket.userId
UpdateDenied(doc, u) == doc = NullDoc \/ ~IsOrganizer(doc, u)

\* line 350: !event || event.organizer.toString() !== socket.userId
CheckinDenied(doc, u) == doc = NullDoc \/ ~IsOrganizer(doc, u)

ChatAvailableAlways(doc) == TRUE

\* line 238: event.features.hasChat
ChatAvailable(doc) == doc.hasChat

\* socket.on('join_event'), lines 127-130
JoinEventStart(s, e) == Fetch("join_event", s, e, "ax")

\* socket.on('join_event'), lines 132-172
JoinEventDone(r, throws) ==
    /\ Idle
    /\ UNCHANGED <<authVars, bookings>>
    /\ overtaken' = overtaken \ {r}
    /\ r \in inflight /\ r.kind = "join_event"
    /\ LET s == r.sock
           e == r.event
           u == sockUser[s]
       IN IF throws THEN FailWith(r, ThrowOp(r), "Failed to join event")
          ELSE IF r.doc = NullDoc THEN FailWith(r, ReqOp(r), "Event not found")
          ELSE IF ~HasAccess(r.doc, u)
          THEN FailWith(r, ReqOp(r), "Access denied to this event")
          ELSE LET rm == [rooms EXCEPT ![s] = @ \cup {EventRoom(e)}] IN
               /\ rooms' = rm
               /\ eventRooms' =
                     MapSet(eventRooms, e,
                            (IF MapHas(eventRooms, e) THEN eventRooms[e] ELSE {})
                               \cup {s})
               /\ emitted' = <<SocketToEmit(s, rm, sockState, EventRoom(e),
                                            "user_joined_event"),
                               SocketEmit(s, sockState, "joined_event", "")>>
               /\ inflight' = inflight \ {r}
               /\ lastOp' = ReqOp(r)
               /\ UNCHANGED <<sockState, sockToken, sockUser, activeConnections,
                              userSockets, eventDb>>

\* socket.on('leave_event'), lines 176-195
LeaveEvent(s, e) ==
    /\ Idle
    /\ UNCHANGED <<authVars, bookings>>
    /\ overtaken' = overtaken \cup
          {r \in inflight : r.kind = "join_event" /\ r.sock = s /\ r.event = e}
    /\ sockState[s] = "connected"
    /\ LET rm == [rooms EXCEPT ![s] = @ \ {EventRoom(e)}]
           had == MapHas(eventRooms, e)
           left == IF had THEN eventRooms[e] \ {s} ELSE {}
       IN /\ rooms' = rm
          /\ eventRooms' = IF ~had THEN eventRooms
                           ELSE IF left = {} THEN MapDelete(eventRooms, e)
                           ELSE MapSet(eventRooms, e, left)
          /\ emitted' = <<SocketToEmit(s, rm, sockState, EventRoom(e), "user_left_event")>>
          /\ lastOp' = Op("leave_event", s, e)
          /\ UNCHANGED <<sockState, sockToken, sockUser, activeConnections,
                         userSockets, eventDb, inflight>>

\* socket.on('event_update'), lines 198-201
EventUpdateStart(s, e) == Fetch("event_update", s, e, "ax")

\* socket.on('event_update'), lines 203-223
EventUpdateDone(r, throws) ==
    /\ Idle
    /\ UNCHANGED <<authVars, bookings, overtaken>>
    /\ r \in inflight /\ r.kind = "event_update"
    /\ IF throws THEN FailWith(r, ThrowOp(r), "Failed to update event")
       ELSE IF UpdateDenied(r.doc, sockUser[r.sock])
       THEN FailWith(r, ReqOp(r), "Unauthorized to update this event")
       ELSE /\ emitted' = <<IoToEmit(rooms, sockState, EventRoom(r.event),
                                    "event_updated", 0)>>
            /\ inflight' = inflight \ {r}
            /\ lastOp' = ReqOp(r)
            /\ UNCHANGED <<sockState, sockToken, sockUser, activeConnections,
                           userSockets, eventRooms, rooms, eventDb>>

\* socket.on('send_event_message'), lines 232-237
SendEventMessageStart(s, e) == Fetch("send_event_message", s, e, "ax")

\* socket.on('send_event_message'), lines 238-263
SendEventMessageDone(r, throws) ==
    /\ Idle
    /\ UNCHANGED <<authVars, bookings, overtaken>>
    /\ r \in inflight /\ r.kind = "send_event_message"
    /\ IF throws THEN FailWith(r, ThrowOp(r), "Failed to send message")
       ELSE IF r.doc = NullDoc \/ ~ChatAvailable(r.doc)
       THEN FailWith(r, ReqOp(r), "Chat not available for this event")
       ELSE /\ emitted' = <<IoToEmit(rooms, sockState, EventRoom(r.event),
                                    "new_event_message", 0)>>
            /\ inflight' = inflight \ {r}
            /\ lastOp' = ReqOp(r)
            /\ UNCHANGED <<sockState, sockToken, sockUser, activeConnections,
                           userSockets, eventRooms, rooms, eventDb>>

\* a handler that only emits
EmitOnly(s, op, em) ==
    /\ Idle
    /\ UNCHANGED <<authVars, bookings, overtaken>>
    /\ sockState[s] = "connected"
    /\ emitted' = <<em>>
    /\ lastOp' = op
    /\ UNCHANGED <<sockState, sockToken, sockUser, activeConnections, userSockets,
                   eventRooms, rooms, eventDb, inflight>>

\* socket.on('typing_start'), lines 267-274
TypingStart(s, e) ==
    EmitOnly(s, Op("typing_start", s, e),
             SocketToEmit(s, rooms, sockState, EventRoom(e), "user_typing"))

\* socket.on('typing_stop'), lines 276-282
TypingStop(s, e) ==
    EmitOnly(s, Op("typing_stop", s, e),
             SocketToEmit(s, rooms, sockState, EventRoom(e), "user_stopped_typing"))

\* socket.on('send_notification'), lines 290-302
SendNotification(s, target) ==
    EmitOnly(s, [Op("send_notification", s, "e0") EXCEPT !.target = target],
             IoToEmit(rooms, sockState, UserRoom(target), "notification", 0))

\* The handlers without try/catch (leave_event, typing_start, typing_stop,
\* send_notification) destructure their payload first: with no payload
\* (`data` undefined) that throws a TypeError before anything else has run,
\* and nothing in the handler catches it.
SyncHandlers == {"leave_event", "typing_start", "typing_stop", "send_notification"}

PayloadThrows(s, kind) ==
    /\ Idle
    /\ UNCHANGED <<authVars, bookings, overtaken>>
    /\ sockState[s] = "connected"
    /\ emitted' = <<>>
    /\ lastOp' = Op(kind \o "!", s, "e0")
    /\ UNCHANGED <<sockState, sockToken, sockUser, activeConnections, userSockets,
                   eventRooms, rooms, eventDb, inflight>>

\* socket.on('request_event_stats'), lines 317-320
RequestEventStatsStart(s, e) == Fetch("request_event_stats", s, e, "ax")

EventStatsAllSockets(doc, e) ==
    [totalAttendees |-> Cardinality(DOMAIN doc.attendees),
     checkedInCount |-> CheckedInCount(doc),
     availableSpots |-> getAvailableSpots(doc),
     onlineViewers |-> Cardinality(DOMAIN activeConnections)]

\* lines 327-334: the stats object
EventStats(doc, e) ==
    [totalAttendees |-> Cardinality(DOMAIN doc.attendees),
     checkedInCount |-> CheckedInCount(doc),
     availableSpots |-> getAvailableSpots(doc),
     onlineViewers |-> IF MapHas(eventRooms, e) THEN Cardinality(eventRooms[e]) ELSE 0]

\* socket.on('request_event_stats'), lines 322-341
RequestEventStatsDone(r, throws) ==
    /\ Idle
    /\ UNCHANGED <<authVars, bookings, overtaken>>
    /\ r \in inflight /\ r.kind = "request_event_stats"
    /\ IF throws THEN FailWith(r, ThrowOp(r), "Failed to get event stats")
       ELSE IF r.doc = NullDoc THEN FailWith(r, ReqOp(r), "Event not found")
       ELSE /\ emitted' = <<[SocketEmit(r.sock, sockState, "event_stats", "")
                               EXCEPT !.val = EventStats(r.doc, r.event)]>>
            /\ inflight' = inflight \ {r}
            /\ lastOp' = ReqOp(r)
            /\ UNCHANGED <<sockState, sockToken, sockUser, activeConnections,
                           userSockets, eventRooms, rooms, eventDb>>

\* socket.on('attendee_checkin'), lines 345-348
AttendeeCheckinStart(s, e, a) == Fetch("attendee_checkin", s, e, a)

\* lines 358-359 on the handler's copy of the document
CheckIn(doc, a) ==
    [doc EXCEPT !.attendees[a].checkInTime = "set", !.attendees[a].status = "attended"]

TotalCheckedInAll(doc) == Cardinality(DOMAIN doc.attendees)

\* line 367: totalCheckedIn
TotalCheckedIn(doc) == CheckedInCount(doc)

\* socket.on('attendee_checkin'), lines 350-360: authorization, the attendee
\* sub-document, the update, and event.save() issued
AttendeeCheckinLookupDone(r, throws) ==
    /\ Idle
    /\ UNCHANGED <<authVars, bookings, overtaken>>
    /\ r \in inflight /\ r.kind = "attendee_checkin" /\ r.stage = "lookup"
    /\ IF throws THEN FailWith(r, ThrowOp(r), "Check-in failed")
       ELSE IF CheckinDenied(r.doc, sockUser[r.sock])
       THEN FailWith(r, ReqOp(r), "Unauthorized")
       ELSE /\ inflight' =
                 IF r.att \in DOMAIN r.doc.attendees
                 THEN (inflight \ {r}) \cup
                      {[r EXCEPT !.doc = CheckIn(r.doc, r.att), !.stage = "save"]}
                 ELSE inflight \ {r}
            /\ emitted' = <<>>
            /\ lastOp' = ReqOp(r)
            /\ UNCHANGED <<sockState, sockToken, sockUser, activeConnections,
                           userSockets, eventRooms, rooms, eventDb>>

\* event.save(): Mongoose writes the modified paths of the sub-document
SaveAttendee(db, e, a, doc) ==
    [db EXCEPT ![e].attendees[a] = doc.attendees[a]]

\* lines 360-374: event.save() settles, then the broadcast
AttendeeCheckinSaveDone(r, fails) ==
    /\ Idle
    /\ UNCHANGED <<authVars, bookings, overtaken>>
    /\ r \in inflight /\ r.kind = "attendee_checkin" /\ r.stage = "save"
    /\ IF fails THEN FailWith(r, ThrowOp(r), "Check-in failed")
       ELSE /\ eventDb' = SaveAttendee(eventDb, r.event, r.att, r.doc)
            /\ emitted' = <<IoToEmit(rooms, sockState, EventRoom(r.event),
                                    "attendee_checked_in", TotalCheckedIn(r.doc))>>
            /\ inflight' = inflight \ {r}
            /\ lastOp' = ReqOp(r)
            /\ UNCHANGED <<sockState, sockToken, sockUser, activeConnections,
                           userSockets, eventRooms, rooms>>

\* The event-loop turn ends: the emitted packets are with the transport.
TurnEnds ==
    /\ ~Idle
    /\ UNCHANGED <<authVars, bookings, overtaken>>
    /\ emitted' = <<>>
    /\ lastOp' = NoOp
    /\ UNCHANGED <<sockState, sockToken, sockUser, activeConnections, userSockets,
                   eventRooms, rooms, eventDb, inflight>>

----------------------------------------------------------------------------
SocketNext ==
    \/ TurnEnds
    \/ \E s \in Sockets, tok \in Tokens : Handshake(s, tok)
    \/ \E s \in Sockets, throws \in BOOLEAN : AuthLookupDone(s, throws)
    \/ \E s \in Sockets : Disconnect(s)
    \/ \E s \in Sockets, e \in AnyEventId : JoinEventStart(s, e)
    \/ \E r \in inflight, throws \in BOOLEAN : JoinEventDone(r, throws)
    \/ \E s \in Sockets, e \in AnyEventId : LeaveEvent(s, e)
    \/ \E s \in Sockets, e \in AnyEventId : EventUpdateStart(s, e)
    \/ \E r \in inflight, throws \in BOOLEAN : EventUpdateDone(r, throws)
    \/ \E s \in Sockets, e \in AnyEventId : SendEventMessageStart(s, e)
    \/ \E r \in inflight, throws \in BOOLEAN : SendEventMessageDone(r, throws)
    \/ \E s \in Sockets, e \in AnyEventId : TypingStart(s, e)
    \/ \E s \in Sockets, e \in AnyEventId : TypingStop(s, e)
    \/ \E s \in Sockets, target \in UserIds : SendNotification(s, target)
    \/ \E s \in Sockets, kind \in SyncHandlers : PayloadThrows(s, kind)
    \/ \E s \in Sockets, e \in AnyEventId : RequestEventStatsStart(s, e)
    \/ \E r \in inflight, throws \in BOOLEAN : RequestEventStatsDone(r, throws)
    \/ \E s \in Sockets, e \in AnyEventId, a \in AnyAttendeeId :
          AttendeeCheckinStart(s, e, a)
    \/ \E r \in inflight, throws \in BOOLEAN : AttendeeCheckinLookupDone(r, throws)
    \/ \E r \in inflight, fails \in BOOLEAN : AttendeeCheckinSaveDone(r, fails)

----------------------------------------------------------------------------
(* Part II: AuthService.                                                       *)

MaxTicks == 3          \* the clock runs for MaxTicks ticks
MaxSubs == 2           \* Subscription objects created in a run
MaxHttp == 1           \* HTTP calls awaiting a response at once

REFRESH_THRESHOLD == 5 * 60 * 1000          \* line 62
TickMs == 2 * 60 * 1000                     \* granularity of the modelled clock

NoSub == 0
NoTok == [ok |-> FALSE, exp |-> 0]          \* no token (null)
Garbage == [ok |-> FALSE, exp |-> 1]        \* a string jwtDecode throws on
Jwt(exp) == [ok |-> TRUE, exp |-> exp]      \* a decodable token, exp in seconds

\* what the server puts in a token it issues at time t: 4 or 10 minutes of life
Lifetimes == {4 * 60, 10 * 60}
IssuedAt(t) == {Jwt((t \div 1000) + life) : life \in Lifetimes}

\* what the store can hold when the application starts
StartTokens == {NoTok, Garbage, Jwt(0), Jwt(4 * 60), Jwt(10 * 60)}

\* the service's fields as one record, so that the private methods compose
Svc == [token |-> storedToken, user |-> currentUser, authed |-> isAuthenticated,
        timer |-> tokenRefreshTimer, subs |-> subs, nextSub |-> nextSub,
        nav |-> FALSE, pub |-> <<>>]

\* lines 383-391
isTokenValid(tok, t) == tok.ok /\ tok.exp * 1000 > t

\* lines 319-323
clearAuthState(S) ==
    [S EXCEPT !.token = NoTok, !.user = "null", !.authed = FALSE,
              !.pub = Append(@, "null")]

\* lines 417-422: unsubscribe closes the Subscription, whatever it was waiting for
clearTokenRefreshTimer(S) ==
    IF S.timer # NoSub
    THEN [S EXCEPT !.subs = MapDelete(S.subs, S.timer), !.timer = NoSub]
    ELSE S

handleLogoutKeepsTimer(S) == [clearAuthState(S) EXCEPT !.nav = TRUE]

\* lines 303-307
handleLogout(S) == [clearTokenRefreshTimer(clearAuthState(S)) EXCEPT !.nav = TRUE]

\* lines 399-401: delay
RefreshDelay(tok, t) == (tok.exp * 1000 - REFRESH_THRESHOLD) - t

RescheduleNoClear(S, tok, t) ==
    [S EXCEPT !.subs = MapSet(S.subs, S.nextSub,
                              [state |-> "waiting", fireAt |-> t + RefreshDelay(tok, t)]),
              !.timer = S.nextSub,
              !.nextSub = S.nextSub + 1]

\* lines 404-407: the old Subscription is closed and a new one opened
Reschedule(S, tok, t) ==
    LET C == clearTokenRefreshTimer(S) IN
    [C EXCEPT !.subs = MapSet(C.subs, S.nextSub,
                              [state |-> "waiting", fireAt |-> t + RefreshDelay(tok, t)]),
              !.timer = S.nextSub,
              !.nextSub = S.nextSub + 1]

\* lines 396-412
scheduleTokenRefresh(S, tok, t) ==
    IF ~tok.ok THEN S                       \* jwtDecode throws, caught on line 409
    ELSE IF RefreshDelay(tok, t) > 0 THEN Reschedule(S, tok, t)
    ELSE S

\* lines 293-298
handleAuthSuccess(S, tok, user, t) ==
    scheduleTokenRefresh([S EXCEPT !.token = tok, !.authed = TRUE, !.user = user,
                                   !.pub = Append(@, user)], tok, t)

\* the step's result on the fields
SetSvc(S) ==
    /\ storedToken' = S.token
    /\ currentUser' = S.user
    /\ isAuthenticated' = S.authed
    /\ tokenRefreshTimer' = S.timer
    /\ subs' = S.subs
    /\ nextSub' = S.nextSub

NoAuthOp == [op |-> "none", kind |-> "none", status |-> 0, accepted |-> NoTok,
             nav |-> FALSE, logout |-> FALSE, result |-> "none", pub |-> <<>>]

AuthInit ==
    /\ constructed = FALSE
    /\ storedToken \in StartTokens
    /\ currentUser = "null"
    /\ isAuthenticated = FALSE
    /\ tokenRefreshTimer = NoSub
    /\ subs = EmptyMap
    /\ nextSub = 1
    /\ now = 0
    /\ http = {}
    /\ authOp = NoAuthOp
    /\ refreshFailed = FALSE
    /\ component = "none"
    /\ socketRequests = <<>>
    /\ lastRequest = "none"

\* the service and the component are created in one synchronous bootstrap:
\* nothing else runs before ngOnInit
Started == constructed /\ component # "none"

OnCurrentUserInverted(user) == IF user # "null" THEN "disconnect" ELSE "connect"

\* app.component.ts lines 271-277: the subscriber of currentUser$
OnCurrentUser(user) == IF user # "null" THEN "connect" ELSE "disconnect"

\* setupAuthSubscription, lines 267-279: one call of SocketService for each
\* value currentUserSubject publishes, while the subscription lives
AuthSubscription(pub) ==
    IF component = "alive" THEN [i \in 1..Len(pub) |-> OnCurrentUser(pub[i])] ELSE <<>>

\* the calls of SocketService made in a step
Requested(reqs) ==
    /\ socketRequests' = reqs
    /\ lastRequest' = IF reqs # <<>> THEN reqs[Len(reqs)] ELSE lastRequest

\* The step's result: the fields, the calls still awaited (a call owned by a
\* closed Subscription is cancelled with it), what the subscriber of
\* currentUser$ did with the values published, and what the step was.
Finish(S, calls, op) ==
    /\ SetSvc(S)
    /\ http' = {c \in calls : c.sub = NoSub \/ c.sub \in DOMAIN S.subs}
    /\ authOp' = [op EXCEPT !.nav = S.nav, !.pub = S.pub]
    /\ Requested(AuthSubscription(S.pub))
    /\ refreshFailed' =
          IF op.op = "response" /\ op.kind = "refresh" /\ op.status # 200 THEN TRUE
          ELSE IF op.op = "response" /\ op.accepted # NoTok /\ op.kind # "refresh"
          THEN FALSE
          ELSE refreshFailed
    /\ UNCHANGED <<now, component, sockVars, bookings>>

AuthOp(name, kind, status) == [NoAuthOp EXCEPT !.op = name, !.kind = kind, !.status = status]

Call(kind, sub) == [kind |-> kind, sub |-> sub]

\* constructor -> initializeAuth, lines 82-91
InitializeAuth ==
    /\ ~constructed
    /\ constructed' = TRUE
    /\ IF isTokenValid(storedToken, now)
       THEN Finish(scheduleTokenRefresh([Svc EXCEPT !.authed = TRUE], storedToken, now),
                   http \cup {Call("loadUserProfile", NoSub)},
                   [AuthOp("initializeAuth", "none", 0) EXCEPT !.accepted = storedToken])
       ELSE Finish(clearAuthState(Svc), http, AuthOp("initializeAuth", "none", 0))

\* checkAuthStatus, lines 96-101
CheckAuthStatus ==
    /\ Started
    /\ Cardinality(http) < MaxHttp
    /\ isTokenValid(storedToken, now)
    /\ Finish(Svc, http \cup {Call("loadUserProfile", NoSub)},
              AuthOp("checkAuthStatus", "none", 0))
    /\ UNCHANGED constructed

\* A public method sends its request: login, register, logout, getUserProfile,
\* updateProfile, changePassword, forgotPassword, resetPassword, verifyEmail
TokenCalls == {"login", "register", "resetPassword"}
PlainCalls == {"changePassword", "forgotPassword", "verifyEmail", "updateProfile"}
CallKinds == TokenCalls \cup PlainCalls \cup {"logout", "getUserProfile"}

StartCall(kind) ==
    /\ Started
    /\ Cardinality(http) < MaxHttp
    /\ Finish(Svc, http \cup {Call(kind, NoSub)}, AuthOp("call", kind, 0))
    /\ UNCHANGED constructed

\* refreshToken() called from outside the timer, lines 225-231
RefreshTokenCall ==
    /\ Started
    /\ Cardinality(http) < MaxHttp
    /\ IF storedToken = NoTok
       THEN Finish(Svc, http, [AuthOp("call", "refresh", 0)
                                  EXCEPT !.result = "No token available"])
       ELSE Finish(Svc, http \cup {Call("refresh", NoSub)}, AuthOp("call", "refresh", 0))
    /\ UNCHANGED constructed

\* timer(delay) fires: switchMap(() => this.refreshToken()), lines 405-407, 225-231
TimerFires(id) ==
    /\ id \in DOMAIN subs
    /\ Started
    /\ subs[id].state = "waiting"
    /\ now >= subs[id].fireAt
    /\ IF storedToken = NoTok
       THEN \* refreshToken() returns throwError: the Subscription ends with the error
            Finish([Svc EXCEPT !.subs = MapDelete(subs, id)], http,
                   [AuthOp("timer", "refresh", 0) EXCEPT !.result = "No token available"])
       ELSE Finish([Svc EXCEPT !.subs[id].state = "requesting"],
                   http \cup {Call("refresh", id)}, AuthOp("timer", "refresh", 0))
    /\ UNCHANGED constructed

\* HTTP status of a failed call: 0 is a client-side ErrorEvent
ErrorStatus == {0, 401, 500}

\* handleError, lines 427-447
handleError(S, status) == IF status = 401 THEN handleLogout(S) ELSE S

\* login / register / resetPassword answered, lines 106-131 and 202-212
TokenCallSucceeds(c, tok) ==
    /\ c \in http /\ c.kind \in TokenCalls
    /\ Started
    /\ nextSub <= MaxSubs
    /\ Finish(handleAuthSuccess(Svc, tok, "user", now), http \ {c},
              [AuthOp("response", c.kind, 200) EXCEPT !.accepted = tok])
    /\ UNCHANGED constructed

\* a response with success false or without a token: the tap does nothing
CallSucceedsEmpty(c) ==
    /\ c \in http /\ c.kind \in TokenCalls \cup (PlainCalls \ {"updateProfile"})
    /\ Started
    /\ Finish(Svc, http \ {c}, AuthOp("response", c.kind, 200))
    /\ UNCHANGED constructed

\* catchError(this.handleError) of every call but refresh and logout
CallFails(c, status) ==
    /\ c \in http /\ c.kind \in TokenCalls \cup PlainCalls \cup {"getUserProfile"}
    /\ Started
    /\ Finish(handleError(Svc, status), http \ {c}, AuthOp("response", c.kind, status))
    /\ UNCHANGED constructed

\* getUserProfile answered, lines 151-161; through loadUserProfile, lines 328-339
ProfileSucceeds(c) ==
    /\ c \in http /\ c.kind \in {"getUserProfile", "loadUserProfile"}
    /\ Started
    /\ Finish([Svc EXCEPT !.user = "user",
                           \* the tap of line 155, and for loadUserProfile its
                           \* own next callback (line 332) after it
                           !.pub = IF c.kind = "loadUserProfile"
                                   THEN <<"user", "user">> ELSE <<"user">>],
              http \ {c}, AuthOp("response", c.kind, 200))
    /\ UNCHANGED constructed

\* loadUserProfile fails: handleError, then the error callback of line 336
LoadUserProfileFails(c, status) ==
    /\ c \in http /\ c.kind = "loadUserProfile"
    /\ Started
    /\ Finish(clearAuthState(handleError(Svc, status)), http \ {c},
              AuthOp("response", c.kind, status))
    /\ UNCHANGED constructed

\* updateProfile answered, lines 166-179
UpdateProfileSucceeds(c) ==
    /\ c \in http /\ c.kind = "updateProfile"
    /\ Started
    /\ Finish(IF currentUser # "null" THEN [Svc EXCEPT !.pub = Append(@, "user")] ELSE Svc,
              http \ {c}, AuthOp("response", c.kind, 200))
    /\ UNCHANGED constructed

LogoutFailedKeepsState(S) == S

\* lines 140-144: the local state is cleared when the request failed, too
LogoutFailed(S) == handleLogout(S)

\* logout answered, lines 136-146
LogoutResponse(c, status) ==
    /\ c \in http /\ c.kind = "logout"
    /\ Started
    /\ IF status = 200
       THEN Finish(handleLogout(Svc), http \ {c},
                   [AuthOp("response", "logout", 200)
                       EXCEPT !.logout = TRUE, !.result = "completes"])
       ELSE Finish(LogoutFailed(Svc), http \ {c},
                   [AuthOp("response", "logout", status)
                       EXCEPT !.logout = TRUE, !.result = "Logout failed"])
    /\ UNCHANGED constructed

\* the Subscription of a timer-driven refresh ends when its request has ended
EndSub(S, c) == IF c.sub = NoSub THEN S ELSE [S EXCEPT !.subs = MapDelete(S.subs, c.sub)]

\* refresh answered with a token, lines 233-238
RefreshSucceeds(c, tok) ==
    /\ c \in http /\ c.kind = "refresh"
    /\ Started
    /\ nextSub <= MaxSubs
    /\ Finish(EndSub(scheduleTokenRefresh([Svc EXCEPT !.token = tok], tok, now), c),
              http \ {c},
              [AuthOp("response", "refresh", 200) EXCEPT !.accepted = tok])
    /\ UNCHANGED constructed

\* refresh fails, lines 239-242
RefreshFails(c, status) ==
    /\ c \in http /\ c.kind = "refresh"
    /\ Started
    /\ Finish(EndSub(handleLogout(Svc), c), http \ {c},
              AuthOp("response", "refresh", status))
    /\ UNCHANGED constructed

\* time passes
Tick ==
    /\ Started
    /\ now < MaxTicks * TickMs
    /\ now' = now + TickMs
    /\ authOp' = NoAuthOp
    /\ Requested(<<>>)
    /\ UNCHANGED <<constructed, storedToken, currentUser, isAuthenticated,
                   tokenRefreshTimer, subs, nextSub, http, refreshFailed, component,
                   sockVars, bookings>>

\* AppComponent is created: its constructor calls checkAuthStatus()
\* (app.component.ts line 230) and ngOnInit subscribes to currentUser$, which
\* hands the subscriber the subject's current value at once
AppComponentStart ==
    /\ constructed
    /\ component = "none"
    /\ component' = "alive"
    /\ SetSvc(Svc)
    /\ http' = IF isTokenValid(storedToken, now)
               THEN http \cup {Call("loadUserProfile", NoSub)} ELSE http
    /\ Requested(<<OnCurrentUser(currentUser)>>)
    /\ authOp' = AuthOp("ngOnInit", "none", 0)
    /\ UNCHANGED <<constructed, now, refreshFailed, sockVars, bookings>>

\* app.component.ts line 222: this.socketService.disconnect()
NgOnDestroyRequests == <<"disconnect">>

\* ngOnDestroy, app.component.ts lines 219-223: destroy$ ends the subscription
NgOnDestroy ==
    /\ component = "alive"
    /\ component' = "destroyed"
    /\ SetSvc(Svc)
    /\ Requested(NgOnDestroyRequests)
    /\ authOp' = AuthOp("ngOnDestroy", "none", 0)
    /\ UNCHANGED <<constructed, now, http, refreshFailed, sockVars, bookings>>


AuthNext ==
    \/ InitializeAuth
    \/ AppComponentStart
    \/ NgOnDestroy
    \/ CheckAuthStatus
    \/ \E kind \in CallKinds : StartCall(kind)
    \/ RefreshTokenCall
    \/ \E id \in DOMAIN subs : TimerFires(id)
    \/ \E c \in http, tok \in IssuedAt(now) : TokenCallSucceeds(c, tok)
    \/ \E c \in http : CallSucceedsEmpty(c)
    \/ \E c \in http, status \in ErrorStatus : CallFails(c, status)
    \/ \E c \in http : ProfileSucceeds(c)
    \/ \E c \in http, status \in ErrorStatus : LoadUserProfileFails(c, status)
    \/ \E c \in http : UpdateProfileSucceeds(c)
    \/ \E c \in http, status \in ErrorStatus \cup {200} : LogoutResponse(c, status)
    \/ \E c \in http, tok \in IssuedAt(now) : RefreshSucceeds(c, tok)
    \/ \E c \in http, status \in ErrorStatus : RefreshFails(c, status)
    \/ Tick

\* the AuthService before its construction, with an empty store
AuthQuiet ==
    /\ constructed = FALSE /\ storedToken = NoTok /\ currentUser = "null"
    /\ isAuthenticated = FALSE /\ tokenRefreshTimer = NoSub /\ subs = EmptyMap
    /\ nextSub = 1 /\ now = 0 /\ http = {} /\ authOp = NoAuthOp
    /\ refreshFailed = FALSE /\ component = "none"
    /\ socketRequests = <<>> /\ lastRequest = "none"

----------------------------------------------------------------------------
(* Part III: bookings. The booking routes are not among the source files; a     *)
(* booking is the read-increment-save the specification describes, on the      *)
(* counters of the Event model (pricing.tickets.sold and                        *)
(* registration.currentAttendees).                                             *)

MaxBookings == 3       \* booking requests in a run

Bookings == 1..MaxBookings
Counters == {"sold", "currentAttendees"}

NoBooking == [pc |-> "idle", event |-> "e0", counter |-> "sold", seen |-> 0]

BookingInit == bookings = [b \in Bookings |-> NoBooking]

\* the value of a counter on a document
CounterOf(doc, k) == IF k = "sold" THEN doc.sold ELSE doc.currentAttendees

SaveCounterAtomic(db, e, k, v) ==
    IF k = "sold" THEN [db EXCEPT ![e].sold = @ + 1]
    ELSE [db EXCEPT ![e].currentAttendees = @ + 1]

\* event.save() of a document whose counter was assigned v: the schema sets
\* no optimisticConcurrency and the counters are plain Numbers, so the save
\* is a $set of the modified path, whatever the stored value has become
SaveCounter(db, e, k, v) ==
    IF k = "sold" THEN [db EXCEPT ![e].sold = v]
    ELSE [db EXCEPT ![e].currentAttendees = v]

\* a booking fetches the event and reads the counter
BookingRead(b, e, k) ==
    /\ bookings[b].pc = "idle"
    /\ bookings' = [bookings EXCEPT ![b] =
                       [pc |-> "read", event |-> e, counter |-> k,
                        seen |-> CounterOf(eventDb[e], k)]]
    /\ UNCHANGED <<sockVars, authVars>>

\* the booking assigns counter = value read + 1 and saves the document
BookingWrite(b) ==
    /\ bookings[b].pc = "read"
    /\ LET r == bookings[b] IN
       eventDb' = SaveCounter(eventDb, r.event, r.counter, r.seen + 1)
    /\ bookings' = [bookings EXCEPT ![b].pc = "done"]
    /\ UNCHANGED <<sockState, sockToken, sockUser, activeConnections, userSockets,
                   eventRooms, rooms, inflight, emitted, lastOp, overtaken, authVars>>

BookingNext ==
    \/ \E b \in Bookings, e \in EventIds, k \in Counters : BookingRead(b, e, k)
    \/ \E b \in Bookings : BookingWrite(b)

----------------------------------------------------------------------------
InitSocketSpec == SocketInit /\ AuthQuiet /\ BookingInit
SpecSocket == InitSocketSpec /\ [][SocketNext]_vars

InitAuthSpec == AuthInit /\ SocketInit /\ BookingInit
SpecAuth == InitAuthSpec /\ [][AuthNext]_vars

InitBookingSpec == SocketInit /\ AuthQuiet /\ BookingInit
SpecBooking == InitBookingSpec /\ [][BookingNext]_vars

----------------------------------------------------------------------------
(* Properties of the socket handler (checked under SpecSocket).               *)

HasEv(seq, ev) == \E i \in 1..Len(seq) : seq[i].ev = ev

\* the step emitted one 'error', to socket s alone, with one of msgs
ErrorTo(seq, s, msgs) ==
    /\ Len(seq) = 1
    /\ seq[1].ev = "error"
    /\ seq[1].to[1] = "socket" /\ seq[1].to[2] = s
    /\ seq[1].recv \subseteq {s}
    /\ seq[1].msg \in msgs

\* the requests whose continuation the step ran
Resumed == inflight \ inflight'

\* C1: a socket enters activeConnections only in a connection step whose
\* handshake token verifies and names an existing user with status 'active'; a
\* missing token, a token that fails verification, an unknown user and a
\* non-active user each end in a rejection with an error that leaves
\* activeConnections, userSockets and eventRooms as they were.
C1_AuthGate ==
    [][\A s \in Sockets :
          /\ (s \in DOMAIN activeConnections' /\ s \notin DOMAIN activeConnections)
                => /\ lastOp'.op = "connection" /\ lastOp'.sock = s
                   /\ lastOp'.tok # NoToken
                   /\ lastOp'.tok.sig = "good"
                   /\ UserFindById(lastOp'.tok.userId) = "active"
                   /\ activeConnections'[s] = lastOp'.tok.userId
          /\ ( /\ lastOp'.sock = s
               /\ \/ /\ lastOp'.op = "handshake"
                     /\ (lastOp'.tok = NoToken \/ lastOp'.tok.sig # "good")
                  \/ /\ lastOp'.op = "connection"
                     /\ UserFindById(lastOp'.tok.userId) # "active" )
                => /\ sockState'[s] = "rejected"
                   /\ Len(emitted') = 1
                   /\ emitted'[1].ev = "connect_error"
                   /\ emitted'[1].msg # ""
                   /\ activeConnections' = activeConnections
                   /\ userSockets' = userSockets
                   /\ eventRooms' = eventRooms
      ]_vars

C1_Witness ==
    \E s, t \in Sockets :
        /\ sockState[s] = "rejected"
        /\ lastOp.op = "connection" /\ lastOp.sock = t
        /\ t \in DOMAIN activeConnections

\* the events a client socket can send that make the server emit to a room
ClientEvents == {"join_event", "leave_event", "event_update", "send_event_message",
                 "typing_start", "typing_stop", "send_notification", "attendee_checkin"}

\* the claim's access rule, on a fetched document
Allowed(doc, u) ==
    /\ doc.kind = "doc"
    /\ \/ doc.visibility = "public"
       \/ doc.organizer = u
       \/ \E a \in DOMAIN doc.attendees : doc.attendees[a].user = u

\* C2 (as claimed): whatever a client event makes the server deliver to an event
\* room or to another user's personal room is delivered by a handler that
\* fetched the event document and found the sender authorized on it.
C2_Original ==
    [][lastOp'.op \in ClientEvents =>
          \A i \in 1..Len(emitted') :
              LET em == emitted'[i] IN
              ( /\ em.recv # {}
                /\ \/ em.to[1] = "event"
                   \/ /\ em.to[1] = "user"
                      /\ lastOp'.sock \in Sockets
                      /\ em.to[2] # sockUser[lastOp'.sock] )
                 => \E r \in Resumed : Allowed(r.doc, sockUser[r.sock])
      ]_vars

\* C3 (as claimed): a join_event request that is not allowed is answered with
\* 'Event not found' or 'Access denied to this event'.
C3_Original ==
    [][\A r \in Resumed : r.kind = "join_event" =>
          LET ok == Allowed(r.doc, sockUser[r.sock]) IN
          /\ ( \/ eventRooms' # eventRooms
               \/ rooms' # rooms
               \/ HasEv(emitted', "user_joined_event") ) => ok
          /\ ~ok => /\ ErrorTo(emitted', r.sock,
                               {"Event not found", "Access denied to this event"})
                    /\ eventRooms' = eventRooms
      ]_vars

\* C3 (amended): join_event puts the socket in the event's room and in
\* eventRooms[eventId] only when the event exists and the fetched document is
\* public or has the user as organizer or attendee; otherwise the requester
\* gets one 'error' ('Event not found', 'Access denied to this event', or
\* 'Failed to join event' when the lookup throws), no user_joined_event is
\* emitted, and eventRooms and the rooms are unchanged.
C3_JoinEvent ==
    [][\A r \in Resumed : r.kind = "join_event" =>
          LET ok == Allowed(r.doc, sockUser[r.sock])
              threw == lastOp'.op = "join_event!"
          IN
          /\ ( \/ eventRooms' # eventRooms
               \/ rooms' # rooms
               \/ HasEv(emitted', "user_joined_event")
               \/ HasEv(emitted', "joined_event") )
                => /\ ok /\ ~threw
                   /\ r.sock \in eventRooms'[r.event]
                   /\ EventRoom(r.event) \in rooms'[r.sock]
          /\ (~ok \/ threw)
                => /\ ErrorTo(emitted', r.sock,
                              {IF threw THEN "Failed to join event"
                               ELSE IF r.doc = NullDoc THEN "Event not found"
                               ELSE "Access denied to this event"})
                   /\ eventRooms' = eventRooms
                   /\ rooms' = rooms
      ]_vars

C3_Witness ==
    /\ lastOp.op = "join_event"
    /\ \E i \in 1..Len(emitted) :
          /\ emitted[i].ev = "user_joined_event"
          /\ emitted[i].to = EventRoom("e2")
          /\ emitted[i].recv # {}

\* C4 (as claimed): an event_update from anyone but the organizer of an existing
\* event is answered with 'Unauthorized to update this event'.
C4_Original ==
    [][\A r \in Resumed : r.kind = "event_update" =>
          LET ok == r.doc.kind = "doc" /\ r.doc.organizer = sockUser[r.sock] IN
          /\ HasEv(emitted', "event_updated") => ok
          /\ ~ok => ErrorTo(emitted', r.sock, {"Unauthorized to update this event"})
      ]_vars

\* C4 (amended): event_updated is broadcast to the event room only when the
\* event exists and the requester is the organizer on the fetched document; any
\* other requester gets one 'error' ('Unauthorized to update this event', or
\* 'Failed to update event' when the lookup throws) and nothing is broadcast.
C4_EventUpdate ==
    [][\A r \in Resumed : r.kind = "event_update" =>
          LET ok == r.doc.kind = "doc" /\ r.doc.organizer = sockUser[r.sock]
              threw == lastOp'.op = "event_update!"
          IN
          /\ HasEv(emitted', "event_updated")
                => /\ ok /\ ~threw
                   /\ Len(emitted') = 1
                   /\ emitted'[1].to = EventRoom(r.event)
                   /\ emitted'[1].recv = Members(rooms, sockState, EventRoom(r.event))
          /\ (~ok \/ threw)
                => ErrorTo(emitted', r.sock,
                           {IF threw THEN "Failed to update event"
                            ELSE "Unauthorized to update this event"})
      ]_vars

C4_Witness ==
    /\ lastOp.op = "event_update"
    /\ Len(emitted) = 1
    /\ emitted[1].ev = "event_updated"
    /\ emitted[1].recv # {}

\* the attendees of a document that have a checkInTime
WithCheckInTime(doc) ==
    {a \in DOMAIN doc.attendees : doc.attendees[a].checkInTime # "unset"}

C6_Notification ==
    /\ \A s \in Sockets :
          sockState[s] = "connected" => UserRoom(sockUser[s]) \in rooms[s]
    /\ lastOp.op = "send_notification" =>
          /\ Len(emitted) = 1
          /\ emitted[1].ev = "notification"
          /\ emitted[1].recv =
                {t \in Sockets : sockState[t] = "connected" /\ sockUser[t] = lastOp.target}

C6_Witness ==
    /\ lastOp.op = "send_notification"
    /\ emitted[1].recv # {}
    /\ lastOp.sock \notin emitted[1].recv
    /\ \E t \in Sockets : sockState[t] = "connected" /\ t \notin emitted[1].recv

\* a request the claims count as failed: the event is missing, the requester
\* lacks the right the handler asks for, chat is off, or the handler threw
FailedRequest(r, u, threw) ==
    \/ threw
    \/ r.doc = NullDoc
    \/ r.kind = "join_event" /\ ~Allowed(r.doc, u)
    \/ r.kind \in {"event_update", "attendee_checkin"} /\ r.doc.organizer # u
    \/ r.kind = "send_event_message" /\ ~r.doc.hasChat

\* the step emitted exactly one 'error' with a message, to socket s, and left
\* the three maps and the Event collection as they were
ErrorOnly(s) ==
    /\ Len(emitted') = 1
    /\ emitted'[1].ev = "error"
    /\ emitted'[1].to = SelfTarget(s)
    /\ emitted'[1].recv \subseteq {s}
    /\ emitted'[1].msg # ""
    /\ activeConnections' = activeConnections
    /\ userSockets' = userSockets
    /\ eventRooms' = eventRooms
    /\ eventDb' = eventDb

\* C11 (as claimed): every socket request that fails (event not found, access
\* denied, requester not the organizer, chat disabled, or an exception raised
\* while the handler runs) emits one 'error' with a message to the requesting
\* socket only, nothing to any room, and leaves activeConnections, userSockets,
\* eventRooms and the stored event document unchanged.
C11_Original ==
    [][/\ \A r \in Resumed :
             FailedRequest(r, sockUser[r.sock], lastOp'.op = r.kind \o "!")
                => ErrorOnly(r.sock)
       /\ lastOp'.op \in {k \o "!" : k \in SyncHandlers} => ErrorOnly(lastOp'.sock)
      ]_vars

\* the step emitted ev to room r
EmittedTo(seq, ev, r) == \E i \in 1..Len(seq) : seq[i].ev = ev /\ seq[i].to = r

\* C15: the disconnect handler of socket s ends with s absent from
\* activeConnections, from userSockets (the user's entry deleted when s was its
\* last socket) and from every set of eventRooms, with a user_left_event emitted
\* to each event room s was tracked in (and to no other), and with the entries
\* of all other sockets unchanged.
C15_Disconnect ==
    [][lastOp'.op = "disconnect" =>
          LET s == lastOp'.sock
              u == sockUser[s]
          IN
          /\ s \notin DOMAIN activeConnections'
          /\ activeConnections' = [t \in DOMAIN activeConnections \ {s} |->
                                       activeConnections[t]]
          /\ \A v \in DOMAIN userSockets' : s \notin userSockets'[v]
          /\ (u \in DOMAIN userSockets /\ userSockets[u] = {s})
                => u \notin DOMAIN userSockets'
          /\ \A v \in DOMAIN userSockets :
                userSockets[v] \ {s} # {}
                   => v \in DOMAIN userSockets' /\ userSockets'[v] = userSockets[v] \ {s}
          /\ DOMAIN eventRooms' = DOMAIN eventRooms
          /\ \A e \in DOMAIN eventRooms :
                /\ eventRooms'[e] = eventRooms[e] \ {s}
                /\ s \in eventRooms[e]
                      <=> EmittedTo(emitted', "user_left_event", EventRoom(e))
          /\ eventDb' = eventDb
      ]_vars

C15_Witness ==
    /\ lastOp.op = "disconnect"
    /\ \E i \in 1..Len(emitted) :
          /\ emitted[i].ev = "user_left_event"
          /\ emitted[i].recv # {}
    /\ \E e \in DOMAIN eventRooms : eventRooms[e] # {}
    /\ userSockets # EmptyMap

\* the step broadcast user_status_change with status 'offline'
OfflineBroadcasts(seq) ==
    {i \in 1..Len(seq) : seq[i].ev = "user_status_change" /\ seq[i].msg = "offline"}

\* C16: user_status_change 'offline' is broadcast exactly by a disconnect that
\* takes the last socket of its user out of userSockets: once, to every other
\* connected socket; never while the user has another socket in userSockets,
\* and by no other step.
C16_Offline ==
    [][LET s == lastOp'.sock
           last == /\ lastOp'.op = "disconnect"
                   /\ sockUser[s] \in DOMAIN userSockets
                   /\ userSockets[sockUser[s]] = {s}
       IN /\ OfflineBroadcasts(emitted') # {} <=> last
          /\ Cardinality(OfflineBroadcasts(emitted')) <= 1
          /\ \A i \in OfflineBroadcasts(emitted') :
                /\ emitted'[i].to = AllTarget
                /\ emitted'[i].recv = {t \in Sockets \ {s} : sockState[t] = "connected"}
                /\ sockUser[s] \notin DOMAIN userSockets'
      ]_vars

C16_Witness ==
    /\ lastOp.op = "disconnect"
    /\ \E i \in OfflineBroadcasts(emitted) : emitted[i].recv # {}
    /\ \E t \in Sockets : sockState[t] = "connected" /\ sockUser[t] # sockUser[lastOp.sock]

\* C17 (as claimed): a send_event_message for a missing event or one without
\* chat is answered with 'Chat not available for this event'; new_event_message
\* is broadcast only for an existing event with features.hasChat.
C17_Original ==
    [][\A r \in Resumed : r.kind = "send_event_message" =>
          LET ok == r.doc.kind = "doc" /\ r.doc.hasChat IN
          /\ HasEv(emitted', "new_event_message") => ok
          /\ ~HasEv(emitted', "new_event_message")
                => ErrorTo(emitted', r.sock, {"Chat not available for this event"})
      ]_vars

\* C17 (amended): new_event_message is broadcast to the event's room only when
\* the event exists and features.hasChat is true on the fetched document;
\* otherwise the sender gets one 'error' ('Chat not available for this event',
\* or 'Failed to send message' when the lookup throws) and nothing is broadcast.
C17_EventMessage ==
    [][\A r \in Resumed : r.kind = "send_event_message" =>
          LET ok == r.doc.kind = "doc" /\ r.doc.hasChat
              threw == lastOp'.op = "send_event_message!"
          IN
          /\ HasEv(emitted', "new_event_message")
                => /\ ok /\ ~threw
                   /\ Len(emitted') = 1
                   /\ emitted'[1].to = EventRoom(r.event)
                   /\ emitted'[1].recv = Members(rooms, sockState, EventRoom(r.event))
          /\ (ok /\ ~threw) => HasEv(emitted', "new_event_message")
          /\ (~ok \/ threw)
                => ErrorTo(emitted', r.sock,
                           {IF threw THEN "Failed to send message"
                            ELSE "Chat not available for this event"})
      ]_vars

C17_Witness ==
    /\ lastOp.op = "send_event_message"
    /\ Len(emitted) = 1
    /\ emitted[1].ev = "new_event_message"
    /\ Cardinality(emitted[1].recv) = 2

\* C18: request_event_stats answers the requesting socket only: for an existing
\* event one event_stats whose onlineViewers is the number of socket ids in
\* eventRooms[eventId] at that moment (0 without an entry) and whose
\* checkedInCount is at most totalAttendees; nothing goes to a room, and the
\* three maps and the event documents are unchanged.
C18_EventStats ==
    [][\A r \in Resumed : r.kind = "request_event_stats" =>
          /\ Len(emitted') = 1
          /\ emitted'[1].to = SelfTarget(r.sock)
          /\ emitted'[1].recv \subseteq {r.sock}
          /\ (r.doc # NullDoc /\ lastOp'.op = "request_event_stats")
                => /\ emitted'[1].ev = "event_stats"
                   /\ emitted'[1].val.onlineViewers =
                         (IF r.event \in DOMAIN eventRooms
                          THEN Cardinality(eventRooms[r.event]) ELSE 0)
                   /\ emitted'[1].val.checkedInCount <= emitted'[1].val.totalAttendees
                   /\ emitted'[1].val.totalAttendees = Cardinality(DOMAIN r.doc.attendees)
          /\ emitted'[1].ev = "event_stats" => r.doc # NullDoc
          /\ activeConnections' = activeConnections
          /\ userSockets' = userSockets
          /\ eventRooms' = eventRooms
          /\ rooms' = rooms
          /\ eventDb' = eventDb
      ]_vars

C18_Witness ==
    /\ lastOp.op = "request_event_stats"
    /\ Len(emitted) = 1
    /\ emitted[1].ev = "event_stats"
    /\ emitted[1].val.onlineViewers = 1
    /\ emitted[1].val.checkedInCount = 1
    /\ Cardinality(DOMAIN activeConnections) = 2

\* C19 (as claimed): every socket id held in a set of eventRooms is a connected
\* socket, a key of activeConnections.
C19_Original ==
    \A e \in DOMAIN eventRooms : eventRooms[e] \subseteq DOMAIN activeConnections

\* C20 (as claimed): when a socket has sent join_event and then leave_event for
\* the same event and both have been processed, its id is not in
\* eventRooms[eventId] and the socket is not in the event's room.
C20_Original ==
    [][\A r \in Resumed :
          (r.kind = "join_event" /\ r \in overtaken)
             => /\ r.event \in DOMAIN eventRooms' => r.sock \notin eventRooms'[r.event]
                /\ EventRoom(r.event) \notin rooms'[r.sock]
      ]_vars

\* C22: userSockets and activeConnections agree: s is in userSockets[u]
\* exactly when activeConnections maps s to u, and no user is mapped to an
\* empty set.
C22_UserSockets ==
    /\ \A u \in DOMAIN userSockets :
          /\ userSockets[u] # {}
          /\ \A s \in userSockets[u] :
                s \in DOMAIN activeConnections /\ activeConnections[s] = u
    /\ \A s \in DOMAIN activeConnections :
          /\ activeConnections[s] \in DOMAIN userSockets
          /\ s \in userSockets[activeConnections[s]]

C22_Witness ==
    /\ lastOp.op = "connection"
    /\ \E u \in DOMAIN userSockets : Cardinality(userSockets[u]) = 2

\* C23 (as claimed): eventRooms never maps an event id to an empty set.
C23_Original ==
    \A e \in DOMAIN eventRooms : eventRooms[e] # {}

\* C24 (as claimed): every attendee_checkin request ends with an 'error' to the
\* requester or with an attendee_checked_in broadcast to the event room.
C24_Original ==
    [][\A r \in Resumed :
          ( /\ r.kind = "attendee_checkin"
            /\ ~\E q \in inflight' \ inflight : q.kind = "attendee_checkin" )
             => \/ \E i \in 1..Len(emitted') :
                      /\ emitted'[i].ev = "error"
                      /\ emitted'[i].to = SelfTarget(r.sock)
                \/ EmittedTo(emitted', "attendee_checked_in", EventRoom(r.event))
      ]_vars

----------------------------------------------------------------------------
(* Properties of the AuthService (checked under SpecAuth).                    *)

\* the refresh timers that are scheduled and have not fired
PendingTimers == {id \in DOMAIN subs : subs[id].state = "waiting"}

\* local authentication state is cleared
Cleared ==
    /\ storedToken = NoTok
    /\ currentUser = "null"
    /\ isAuthenticated = FALSE

\* C7: at most one token-refresh timer is pending at any time, it is the one the
\* service holds in tokenRefreshTimer (a newly scheduled one has replaced the
\* one before), and none is pending after a logout.
C7_SingleTimer ==
    /\ Cardinality(PendingTimers) <= 1
    /\ PendingTimers \subseteq {tokenRefreshTimer}
    /\ authOp.logout => PendingTimers = {}

C7_Witness ==
    /\ nextSub = 3
    /\ PendingTimers = {2}
    /\ authOp.accepted # NoTok

\* C8 (as claimed): whenever the service accepts a token, a refresh is scheduled
\* to fire 5 minutes before that token expires.
C8_Original ==
    authOp.accepted # NoTok =>
        /\ tokenRefreshTimer \in PendingTimers
        /\ subs[tokenRefreshTimer].fireAt = authOp.accepted.exp * 1000 - 5 * 60 * 1000
        /\ subs[tokenRefreshTimer].fireAt < authOp.accepted.exp * 1000

\* C9: a call of the service that is answered with 401 ends with the stored
\* token removed, no current user, isAuthenticated false, no refresh timer
\* pending and a navigation to /login.
C9_Unauthorized ==
    (authOp.op = "response" /\ authOp.status = 401) =>
        /\ Cleared
        /\ PendingTimers = {}
        /\ subs = EmptyMap
        /\ tokenRefreshTimer = NoSub
        /\ authOp.nav

C9_Witness ==
    /\ authOp.op = "response" /\ authOp.status = 401
    /\ authOp.kind = "changePassword"
    /\ nextSub > 1

\* C10: logout ends with the local state cleared, no timer pending and a
\* navigation to /login whether the request succeeded or failed; the observable
\* completes in the first case and errors with 'Logout failed' in the second.
C10_Logout ==
    authOp.logout =>
        /\ Cleared
        /\ PendingTimers = {}
        /\ tokenRefreshTimer = NoSub
        /\ authOp.nav
        /\ authOp.result = IF authOp.status = 200 THEN "completes" ELSE "Logout failed"

C10_Witness ==
    /\ authOp.logout
    /\ authOp.status = 500
    /\ authOp.result = "Logout failed"
    /\ nextSub > 1

\* the step sent a refresh request to the server
RefreshIssued ==
    /\ authOp.op \in {"timer", "call"}
    /\ authOp.kind = "refresh"
    /\ authOp.result # "No token available"

\* C12 (as claimed): a refresh request that fails is never retried: the failure
\* leaves the client logged out (stored token removed, no current user,
\* isAuthenticated false, navigation to /login), and from then until a login
\* succeeds no refresh timer is pending and no refresh request is issued.
C12_Original ==
    /\ (authOp.op = "response" /\ authOp.kind = "refresh" /\ authOp.status # 200)
          => Cleared /\ authOp.nav
    /\ refreshFailed => PendingTimers = {} /\ ~RefreshIssued

\* C14: while the app component lives, each value the auth service publishes
\* on currentUser$ makes it call SocketService once, connect() for a user and
\* disconnect() for null, so the most recent call is connect() exactly when the
\* current user is non-null; ngOnDestroy calls disconnect(), and ends the
\* subscription.
C14_SocketFollowsUser ==
    /\ component = "alive" =>
          /\ lastRequest = "connect" <=> currentUser # "null"
          /\ authOp.op # "ngOnInit" =>
                /\ Len(socketRequests) = Len(authOp.pub)
                /\ \A i \in 1..Len(authOp.pub) :
                      socketRequests[i] = "connect" <=> authOp.pub[i] # "null"
                /\ \A i \in 1..Len(authOp.pub) :
                      socketRequests[i] = "disconnect" <=> authOp.pub[i] = "null"
    /\ authOp.op = "ngOnDestroy" => socketRequests = <<"disconnect">>
    /\ component = "destroyed" =>
          /\ lastRequest = "disconnect"
          /\ authOp.op # "ngOnDestroy" => socketRequests = <<>>

C14_Witness ==
    /\ component = "alive"
    /\ authOp.logout
    /\ socketRequests = <<"disconnect">>
    /\ refreshFailed = FALSE
    /\ nextSub > 2

\* C21 (as claimed): a step in which the auth service clears the
\* authentication state (clearAuthState: token removed, null published as the
\* current user, isAuthenticated false) leaves no token-refresh timer pending.
C21_Original ==
    (\E i \in 1..Len(authOp.pub) : authOp.pub[i] = "null") => PendingTimers = {}

----------------------------------------------------------------------------
(* Properties of the bookings (checked under SpecBooking).                    *)

\* the bookings that have saved their increment of counter k of event e
DoneOn(e, k) ==
    {b \in Bookings : /\ bookings[b].pc = "done"
                      /\ bookings[b].event = e /\ bookings[b].counter = k}

\* C13: a booking's save writes the value it read + 1 whatever the counter has
\* become since, so of the bookings that have saved on a counter only those
\* that read different values count: two bookings that interleave as read,
\* read, write, write leave the counter one higher, not two.
C13_LostUpdate ==
    [][/\ \A b \in Bookings :
             (bookings[b].pc = "read" /\ bookings'[b].pc = "done")
                => CounterOf(eventDb'[bookings[b].event], bookings[b].counter)
                      = bookings[b].seen + 1
       /\ \A e \in EventIds, k \in Counters :
             CounterOf(eventDb'[e], k) - CounterOf(InitEventDb[e], k)
                <= Cardinality({bookings'[b].seen : b \in DoneOn(e, k)'})
      ]_vars

C13_Witness ==
    \E e \in EventIds, k \in Counters :
        /\ Cardinality(DoneOn(e, k)) = 2
        /\ \A b \in DoneOn(e, k) : bookings[b].seen = CounterOf(InitEventDb[e], k)
        /\ CounterOf(eventDb[e], k) = CounterOf(InitEventDb[e], k) + 1

====
